---- MODULE Spec2Model ----
(***************************************************************************)
(* State-machine model of the creator classification pipelines:            *)
(*   batch-classify-creators.py  (ingestion + classification + sink)       *)
(*   reclassify-creators.py      (classification + sink on an existing     *)
(*                                cache)                                   *)
(* One step of a task is the code it runs between two suspension points    *)
(* (await) of the cooperative scheduler.                                   *)
(***************************************************************************)
EXTENDS Integers, Sequences, FiniteSets, TLC

\* ------------------------------------------------------------------ bounds
\* Number of records of the filtered subject list (creators_with_farcaster).
NumSubjects == 2
\* Width of both admission gates: CONCURRENT_REQUESTS, 20 in the source, scaled
\* down so that more tasks than slots exist.
GateWidth == 1

\* ------------------------------------------------------- program constants
RETRY_ATTEMPTS == 3
RETRY_DELAY == 2

None == "None"

Names == <<"alice", "bob", "carol", "dave", "erin", "frank">>
Usernames == {Names[i] : i \in 1..NumSubjects}
Tasks == 1..NumSubjects

RECURSIVE Pow2(_)
Pow2(n) == IF n = 0 THEN 1 ELSE 2 * Pow2(n - 1)

VARIABLES
  env,                   \* what the process finds at startup: credentials, dataset
  main,                  \* position of main(): the stage it is in or how it ended
  creators,              \* creators_with_farcaster: the username of each record
  cache,                 \* CASTS_DIR: username -> the state of <username>-casts.json
  fetchSem,              \* free slots of the ingestion semaphore
  ingest,                \* the fetch_casts_for_user task of each subject
  fetchDone,             \* as_completed's queue of finished ingestion tasks
  results,               \* main's list of (success, status) tuples
  summary,               \* the counts main prints after ingestion
  classification_tasks,  \* (cast_data, creator) pairs built by main
  classifySem,           \* free slots of the classification semaphore
  classify,              \* the classify_creator task of each pair
  classifyDone,          \* as_completed's queue of finished classification tasks
  classifications,       \* main's list of enriched records
  resultsFile,           \* creator-classifications-with-earnings.json
  call,                  \* a fetch_with_retry call observed on its own
  seen                   \* the responses that call has received, in order

vars == <<env, main, creators, cache, fetchSem, ingest, fetchDone, results, summary,
          classification_tasks, classifySem, classify, classifyDone,
          classifications, resultsFile, call, seen>>

\* ------------------------------------------------------- fetch_with_retry
\* What one session.get can end in. A body is the decoded JSON payload; a
\* timeout, a connection error and a 200 whose body does not decode all raise
\* inside the try block (status 0 here).
ProfileBodies == {"user", "user_nofid", "no_user", "empty"}
CastsBodies == {"casts_bio", "casts_nobio", "casts_nullauthor", "casts_none", "empty"}
ErrorStatuses == {403, 404, 500, 503}
Failures == {[status |-> c, body |-> None] : c \in ErrorStatuses \cup {429, 0}}
ProfileResponses == {[status |-> 200, body |-> b] : b \in ProfileBodies} \cup Failures
CastsResponses == {[status |-> 200, body |-> b] : b \in CastsBodies} \cup Failures

\* The state of one call: the loop variable, where the call is (a request
\* outstanding, asleep, returned), the sleeps taken so far and the value returned.
FetchStart == [attempt |-> 0, at |-> "request", delays |-> <<>>, ret |-> None]
FetchIdle == [attempt |-> 0, at |-> "idle", delays |-> <<>>, ret |-> None]

\* A sleep that does not grow with the attempt.
FetchSleepFlat(f) ==
  [f EXCEPT !.at = "sleep", !.delays = Append(@, RETRY_DELAY)]

FetchReturn(f, v) == [f EXCEPT !.at = "returned", !.ret = v]
FetchSleep(f) ==
  [f EXCEPT !.at = "sleep", !.delays = Append(@, RETRY_DELAY * Pow2(f.attempt))]

\* A loop that treats every failed request alike, as the except branch does.
FetchOnResponseRetryAll(f, r) ==
  IF r.status = 200 THEN FetchReturn(f, r.body)
  ELSE IF r.status = 429 THEN FetchSleep(f)
  ELSE IF f.attempt = RETRY_ATTEMPTS - 1 THEN FetchReturn(f, None)
  ELSE FetchSleep(f)

\* The body of the for loop once the request of this attempt has ended in r.
FetchOnResponse(f, r) ==
  IF r.status = 200 THEN FetchReturn(f, r.body)
  ELSE IF r.status = 429 THEN FetchSleep(f)
  ELSE IF r.status = 0
       THEN IF f.attempt = RETRY_ATTEMPTS - 1 THEN FetchReturn(f, None)
            ELSE FetchSleep(f)
  ELSE FetchReturn(f, None)

\* A loop in which a retry does not use up an attempt.
FetchOnWakeUncounted(f) == [f EXCEPT !.at = "request"]

\* The sleep is over: the next iteration of the loop, or the return after it.
FetchOnWake(f) ==
  IF f.attempt + 1 < RETRY_ATTEMPTS
  THEN [f EXCEPT !.attempt = @ + 1, !.at = "request"]
  ELSE FetchReturn([f EXCEPT !.attempt = @ + 1], None)

\* `if data:` is false for None and for an empty object.
Truthy(data) == data # None /\ data # "empty"

\* get_user_by_username: data.get('user')
GetUser(data) ==
  IF ~Truthy(data) THEN None
  ELSE IF data = "no_user" THEN None
  ELSE data

\* get_popular_casts: data.get('casts', []); the value names the list's shape.
GetCasts(data) ==
  IF ~Truthy(data) THEN None
  ELSE IF data = "casts_none" THEN "no_casts"
  ELSE IF data = "casts_bio" THEN "bio"
  ELSE IF data = "casts_nobio" THEN "nobio"
  ELSE "nullauthor"

\* ------------------------------------------------------------ content cache
Absent == [state |-> "absent", kind |-> "-", fetched_at |-> 0]
Partial == [state |-> "partial", kind |-> "-", fetched_at |-> 0]
Now == 1
Snapshot(kind, at) == [state |-> "complete", kind |-> kind, fetched_at |-> at]

\* output_file.exists()
Exists(u) == cache[u].state # "absent"

\* What open(output_file, 'w') followed by json.dump can end in: written whole;
\* open raises; the dump raises after the file was created; the process stops
\* after the file was created.
WriteOutcomes == {"ok", "open_failed", "dump_failed", "killed"}

CacheAfterWrite(old, data, w) ==
  IF w = "ok" THEN data
  ELSE IF w = "open_failed" THEN old
  ELSE Partial

\* ---------------------------------------------------- fetch_casts_for_user
\* The content responses a pipeline run meets.
PipelineCastsResponses ==
  {[status |-> 200, body |-> b] : b \in CastsBodies \ {"casts_nobio"}} \cup Failures

\* requested: whether the task has issued any network request.
\* casts_requested: whether it has issued a content (popular casts) request.
IngestStart == [pc |-> "start", fetch |-> FetchIdle, requested |-> FALSE,
                casts_requested |-> FALSE, success |-> FALSE, status |-> "-"]

InGate(t) == ingest[t].pc \in {"user", "casts"}

\* `return success, status` inside `async with semaphore`
IngestReturn(t, requested, success, status, sem) ==
  /\ ingest' = [ingest EXCEPT ![t] = [@ EXCEPT !.pc = "returned",
                                            !.fetch = FetchIdle,
                                            !.requested = requested,
                                            !.success = success,
                                            !.status = status]]
  /\ fetchSem' = sem + 1
  /\ fetchDone' = Append(fetchDone, t)

\* An exception that ends the task with its slot still taken.
IngestRaiseHolding(t, requested, sem) ==
  /\ ingest' = [ingest EXCEPT ![t] = [@ EXCEPT !.pc = "raised",
                                            !.fetch = FetchIdle,
                                            !.requested = requested]]
  /\ fetchSem' = sem
  /\ fetchDone' = Append(fetchDone, t)

\* an exception leaves `async with semaphore` and ends the task
IngestRaise(t, requested, sem) ==
  /\ ingest' = [ingest EXCEPT ![t] = [@ EXCEPT !.pc = "raised",
                                            !.fetch = FetchIdle,
                                            !.requested = requested]]
  /\ fetchSem' = sem + 1
  /\ fetchDone' = Append(fetchDone, t)

\* A gate that admits without counting.
AdmitAlways(sem) == TRUE

\* async with semaphore: the gate admits the task while a slot is free.
Admit(sem) == sem > 0

\* A short-circuit that only trusts an entry written in this run.
IsCachedFresh(u) == Exists(u) /\ cache[u].fetched_at >= Now

\* if output_file.exists(): return True, 'cached'
IsCached(u) == Exists(u)

IngestEnter(t) ==
  /\ main = "ingest"
  /\ ingest[t].pc = "start"
  /\ Admit(fetchSem)
  /\ IF IsCached(creators[t])
     THEN IngestReturn(t, FALSE, TRUE, "cached", fetchSem - 1)
     ELSE /\ ingest' = [ingest EXCEPT ![t] = [@ EXCEPT !.pc = "user",
                                                !.fetch = FetchStart,
                                                !.requested = TRUE]]
          /\ fetchSem' = fetchSem - 1
          /\ UNCHANGED fetchDone
  /\ UNCHANGED <<env, main, creators, cache, results, summary, classification_tasks,
                 classifySem, classify, classifyDone, classifications,
                 resultsFile, call, seen>>

\* The task's code from the point where fetch_with_retry has moved to state f:
\* asleep or re-requesting inside the call, or returned to the caller, which
\* then runs to its next suspension point or to its end.
IngestContinue(t, f, w) ==
  LET me == ingest[t]
      u == creators[t]
      n == me.requested
  IN
  IF f.at # "returned"
  THEN /\ ingest' = [ingest EXCEPT ![t] = [@ EXCEPT !.fetch = f]]
       /\ UNCHANGED <<main, cache, fetchSem, fetchDone>>
  ELSE IF me.pc = "user"
  THEN LET user == GetUser(f.ret) IN
       IF user = None
       THEN IngestReturn(t, n, FALSE, "user_fetch_failed", fetchSem)
            /\ UNCHANGED <<main, cache>>
       ELSE IF user = "user_nofid"
       THEN IngestRaise(t, n, fetchSem) /\ UNCHANGED <<main, cache>>
       ELSE /\ ingest' = [ingest EXCEPT ![t] = [@ EXCEPT !.pc = "casts",
                                                  !.fetch = FetchStart,
                                                  !.casts_requested = TRUE]]
            /\ UNCHANGED <<main, cache, fetchSem, fetchDone>>
  ELSE LET casts == GetCasts(f.ret) IN
       IF casts = None
       THEN IngestReturn(t, n, FALSE, "casts_fetch_failed", fetchSem)
            /\ UNCHANGED <<main, cache>>
       ELSE /\ cache' = [cache EXCEPT
                           ![u] = CacheAfterWrite(@, Snapshot(casts, Now), w)]
            /\ IF w = "ok"
               THEN IngestReturn(t, n, TRUE, "fetched", fetchSem)
                    /\ UNCHANGED main
               ELSE IF w = "killed"
               THEN /\ main' = "killed"
                    /\ UNCHANGED <<ingest, fetchSem, fetchDone>>
               ELSE IngestRaise(t, n, fetchSem) /\ UNCHANGED main

IngestResponse(t) ==
  /\ main = "ingest"
  /\ InGate(t)
  /\ ingest[t].fetch.at = "request"
  /\ \E r \in (IF ingest[t].pc = "user" THEN ProfileResponses
                                        ELSE PipelineCastsResponses),
        w \in WriteOutcomes :
        IngestContinue(t, FetchOnResponse(ingest[t].fetch, r), w)
  /\ UNCHANGED <<env, creators, results, summary, classification_tasks, classifySem, classify,
                 classifyDone, classifications, resultsFile, call, seen>>

IngestWake(t) ==
  /\ main = "ingest"
  /\ InGate(t)
  /\ ingest[t].fetch.at = "sleep"
  /\ IngestContinue(t, FetchOnWake(ingest[t].fetch), "ok")
  /\ UNCHANGED <<env, creators, results, summary, classification_tasks, classifySem, classify,
                 classifyDone, classifications, resultsFile, call, seen>>

\* ------------------------------------------------------------------- main
\* An exception reaches main: it leaves main, the run ends, the event loop
\* cancels the tasks still pending and nothing after the raise point runs.
CancelIngest ==
  [t \in Tasks |-> IF ingest[t].pc \in {"start", "user", "casts"}
                   THEN [ingest[t] EXCEPT !.pc = "cancelled", !.fetch = FetchIdle]
                   ELSE ingest[t]]

\* for coro in as_completed(tasks): result = await coro; results.append(result)
TakeFetched ==
  /\ LET t == Head(fetchDone) IN
     IF ingest[t].pc = "raised"
     THEN /\ main' = "aborted"
          /\ ingest' = CancelIngest
          /\ fetchSem' = fetchSem + Cardinality({o \in Tasks : InGate(o)})
          /\ fetchDone' = <<>>
          /\ UNCHANGED results
     ELSE /\ results' = Append(results, <<ingest[t].success, ingest[t].status>>)
          /\ fetchDone' = Tail(fetchDone)
          /\ UNCHANGED <<main, ingest, fetchSem>>
  /\ UNCHANGED <<env, creators, cache, summary, classification_tasks, classifySem,
                 classify, classifyDone, classifications, resultsFile, call, seen>>

\* A main that cannot resume while a task sleeps, as under a sleep that holds
\* the event loop.
CollectFetchBlocked ==
  /\ main = "ingest"
  /\ fetchDone # <<>>
  /\ \A o \in Tasks : ingest[o].fetch.at # "sleep"
  /\ TakeFetched

\* main resumes as soon as a finished task is there to take.
CollectFetch ==
  /\ main = "ingest"
  /\ fetchDone # <<>>
  /\ TakeFetched

\* ------------------------------------------------------ classify_creator
\* cast_data.get('cast_texts', []), by the shape of the cached casts.
CastTexts(kind) == IF kind = "no_casts" THEN <<>> ELSE <<"gm", "shipping v2">>

\* casts[0].get('author', {}).get('profile', {}).get('bio', {}).get('text', ...)
\* A null author makes the chain raise AttributeError.
BioRaises(kind) == kind = "nullauthor"
Bio(kind) == IF kind = "bio" THEN "Building onchain tools" ELSE "No bio available"

\* cast_data.get('user', {}) of the snapshot cached for username u
User(u) == [username |-> u, display_name |-> u, follower_count |-> 100]

\* The financial attributes of the i-th record of the subject list.
Creator(i) == [totalEarningsUsd |-> 1000 + i, coinAddress |-> i,
               marketCap |-> 5000 + i, handle |-> Names[i]]

\* A reply of the model service: it raises (str(e) = msg), or returns a text,
\* here a sequence of tokens: "w" a word of prose, "{" and "}", and the members
\* of a JSON object.
Raise(msg) == [raises |-> TRUE, msg |-> msg, text |-> <<>>]
Text(toks) == [raises |-> FALSE, msg |-> "", text |-> toks]

\* The key-value pairs a member token stands for.
Member(tok) ==
  IF tok = "G" THEN [primary_classification |-> "Builder", confidence |-> "High",
                     reasoning |-> "ships tools", secondary_traits |-> <<>>]
  ELSE IF tok = "E" THEN [error |-> "model refused"]
  ELSE IF tok = "U" THEN [username |-> "mallory"]
  ELSE IF tok = "C" THEN [primary_classification |-> "Creative", confidence |-> "Low",
                          reasoning |-> "mints art", secondary_traits |-> <<>>]
  ELSE IF tok = "M" THEN [earnings_usd |-> 0, coin_address |-> 0, market_cap |-> 0,
                          zora_handle |-> "mallory"]
  ELSE [primary_classification |-> ""]
MemberTokens == {"G", "E", "U", "B", "C", "M"}

EmptyObject == [k \in {} |-> ""]

\* re.search(r'\{[\s\S]*\}', text): from the first "{" to the last "}" after it.
Opens(text) == {i \in 1..Len(text) : text[i] = "{"}
Closes(text) == {i \in 1..Len(text) : text[i] = "}"}
Min(S) == CHOOSE x \in S : \A y \in S : x <= y
Max(S) == CHOOSE x \in S : \A y \in S : y <= x
HasMatch(text) ==
  /\ Opens(text) # {}
  /\ \E j \in Closes(text) : j > Min(Opens(text))
Match(text) == SubSeq(text, Min(Opens(text)), Max(Closes(text)))

\* json.loads of the match: an object whose members all decode.
Decodes(m) == \A i \in 2..(Len(m) - 1) : m[i] \in MemberTokens
RECURSIVE DecodeMembers(_, _)
DecodeMembers(m, i) ==
  IF i < 2 THEN EmptyObject
  ELSE Member(m[i]) @@ DecodeMembers(m, i - 1)
Decode(m) == DecodeMembers(m, Len(m) - 1)

\* One pass of the inner try block: the decoded classification, or str(e).
Attempt(reply) ==
  IF reply.raises THEN [ok |-> FALSE, error |-> reply.msg, value |-> EmptyObject]
  ELSE IF ~HasMatch(reply.text)
  THEN [ok |-> FALSE, error |-> "No JSON found in response", value |-> EmptyObject]
  ELSE IF ~Decodes(Match(reply.text))
  THEN [ok |-> FALSE, error |-> "Expecting property name", value |-> EmptyObject]
  ELSE [ok |-> TRUE, error |-> "", value |-> Decode(Match(reply.text))]

\* {'username': ..., 'display_name': ..., 'bio': ..., 'follower_count': ...,
\*  'casts_analyzed': ..., **classification, 'analyzed_at': ...}
SuccessRecord(cast_data, classification) ==
  [analyzed_at |-> Now] @@ classification @@
  [username |-> cast_data.user.username,
   display_name |-> cast_data.user.display_name,
   bio |-> Bio(cast_data.kind),
   follower_count |-> cast_data.user.follower_count,
   casts_analyzed |-> Len(CastTexts(cast_data.kind))]

\* An error record that carries the identifier and the message only.
ErrorRecordBare(cast_data, e) ==
  [username |-> cast_data.user.username,
   error |-> e,
   analyzed_at |-> Now]

\* {'username': ..., 'display_name': ..., 'error': str(e), 'analyzed_at': ...}
ErrorRecord(cast_data, e) ==
  [username |-> cast_data.user.username,
   display_name |-> cast_data.user.display_name,
   error |-> e,
   analyzed_at |-> Now]

\* A merge in which the keys of the classification win.
EnrichUnder(record, creator) ==
  record @@
  [earnings_usd |-> creator.totalEarningsUsd, coin_address |-> creator.coinAddress,
   market_cap |-> creator.marketCap, zora_handle |-> creator.handle]

\* process_classification: {**classification, 'earnings_usd': ..., ...}
Enrich(record, creator) ==
  [earnings_usd |-> creator.totalEarningsUsd, coin_address |-> creator.coinAddress,
   market_cap |-> creator.marketCap, zora_handle |-> creator.handle] @@ record

\* reclassify-creators.py: classify_creator takes the subject record too and
\* writes the four financial keys itself, after **classification and
\* analyzed_at. Bio extraction, prompt, regex, json.loads and the retry loop
\* are line for line those of batch-classify-creators.py.
ReclassifySuccessRecord(cast_data, creator_data, classification) ==
  [earnings_usd |-> creator_data.totalEarningsUsd,
   coin_address |-> creator_data.coinAddress,
   market_cap |-> creator_data.marketCap,
   zora_handle |-> creator_data.handle] @@
  [analyzed_at |-> Now] @@ classification @@
  [username |-> cast_data.user.username,
   display_name |-> cast_data.user.display_name,
   bio |-> Bio(cast_data.kind),
   follower_count |-> cast_data.user.follower_count,
   casts_analyzed |-> Len(CastTexts(cast_data.kind))]

ReclassifyErrorRecord(cast_data, creator_data, e) ==
  [username |-> cast_data.user.username,
   display_name |-> cast_data.user.display_name,
   error |-> e,
   analyzed_at |-> Now,
   earnings_usd |-> creator_data.totalEarningsUsd,
   coin_address |-> creator_data.coinAddress,
   market_cap |-> creator_data.marketCap,
   zora_handle |-> creator_data.handle]

\* The record the call returns when generate_content answers with replies, in
\* this order, from the attempt-th call on (attempt counts from 1); Pending
\* while the call still waits for a reply.
Pending == [pending |-> TRUE]
RECURSIVE ReclassifyCreator(_, _, _, _)
ReclassifyCreator(cast_data, creator_data, replies, attempt) ==
  IF attempt > Len(replies) THEN Pending
  ELSE LET a == Attempt(replies[attempt]) IN
       IF a.ok THEN ReclassifySuccessRecord(cast_data, creator_data, a.value)
       ELSE IF attempt = RETRY_ATTEMPTS
       THEN ReclassifyErrorRecord(cast_data, creator_data, a.error)
       ELSE ReclassifyCreator(cast_data, creator_data, replies, attempt + 1)

\* The prompt is built once, before the retry loop, from the snapshot alone.
Prompt(cast_data) ==
  [username |-> cast_data.user.username,
   display_name |-> cast_data.user.display_name,
   bio |-> Bio(cast_data.kind),
   follower_count |-> cast_data.user.follower_count,
   cast_texts |-> CastTexts(cast_data.kind)]

\* prompt and response are the coroutine's locals of these names: response
\* keeps the text of the last generate_content call that returned.
NoRecord == [pending |-> TRUE]
ClassifyStart == [pc |-> "start", attempt |-> 0, delays |-> <<>>, ret |-> NoRecord,
                  prompt |-> None, response |-> None]

CTasks == DOMAIN classification_tasks
InClassifyGate(t) == classify[t].pc \in {"gen", "sleep"}

\* A retry loop whose delay does not grow with the attempt.
ClassifyOnReplyFlat(c, cast_data, reply) ==
  LET a == Attempt(reply) IN
  IF a.ok
  THEN [c EXCEPT !.pc = "returned", !.ret = SuccessRecord(cast_data, a.value),
                 !.response = reply.text]
  ELSE IF c.attempt = RETRY_ATTEMPTS - 1
  THEN [c EXCEPT !.pc = "returned", !.ret = ErrorRecord(cast_data, a.error)]
  ELSE [c EXCEPT !.pc = "sleep", !.delays = Append(@, RETRY_DELAY)]

\* The retry loop once the attempt's generate_content call has ended in reply:
\* return the success record, sleep, or (last attempt) re-raise into the outer
\* except, which returns the error record.
ClassifyOnReply(c, cast_data, reply) ==
  LET a == Attempt(reply)
      r == IF reply.raises THEN c ELSE [c EXCEPT !.response = reply.text]
  IN
  IF a.ok
  THEN [r EXCEPT !.pc = "returned", !.ret = SuccessRecord(cast_data, a.value)]
  ELSE IF c.attempt = RETRY_ATTEMPTS - 1
  THEN [r EXCEPT !.pc = "returned", !.ret = ErrorRecord(cast_data, a.error)]
  ELSE [r EXCEPT !.pc = "sleep",
                 !.delays = Append(@, RETRY_DELAY * Pow2(c.attempt))]

ClassifyOnWake(c) == [c EXCEPT !.pc = "gen", !.attempt = @ + 1]

\* The gate admits the task: it extracts the bio, builds the prompt and issues
\* the first generate_content call. The bio is extracted outside the try block.
ClassifyEnter(t) ==
  /\ main = "classify"
  /\ classify[t].pc = "start"
  /\ Admit(classifySem)
  /\ IF BioRaises(classification_tasks[t].cast_data.kind)
     THEN /\ classify' = [classify EXCEPT ![t] = [@ EXCEPT !.pc = "raised"]]
          /\ classifyDone' = Append(classifyDone, t)
          /\ UNCHANGED classifySem
     ELSE /\ classify' = [classify EXCEPT ![t] =
                 [@ EXCEPT !.pc = "gen",
                           !.prompt = Prompt(classification_tasks[t].cast_data)]]
          /\ classifySem' = classifySem - 1
          /\ UNCHANGED classifyDone
  /\ UNCHANGED <<env, main, creators, cache, fetchSem, ingest, fetchDone, results, summary,
                 classification_tasks, classifications, resultsFile, call, seen>>

\* A generate_content call ends; process_classification merges the creator's
\* attributes into the record classify_creator returns.
ClassifyReplied(t, reply) ==
  LET c == ClassifyOnReply(classify[t], classification_tasks[t].cast_data, reply)
  IN
  IF c.pc = "returned"
  THEN /\ classify' = [classify EXCEPT ![t] =
             [c EXCEPT !.ret = Enrich(c.ret, classification_tasks[t].creator)]]
       /\ classifySem' = classifySem + 1
       /\ classifyDone' = Append(classifyDone, t)
  ELSE /\ classify' = [classify EXCEPT ![t] = c]
       /\ UNCHANGED <<classifySem, classifyDone>>

ClassifyResponse(t, replies) ==
  /\ main = "classify"
  /\ classify[t].pc = "gen"
  /\ \E reply \in replies : ClassifyReplied(t, reply)
  /\ UNCHANGED <<env, main, creators, cache, fetchSem, ingest, fetchDone, results, summary,
                 classification_tasks, classifications, resultsFile, call, seen>>

ClassifyWake(t) ==
  /\ main = "classify"
  /\ classify[t].pc = "sleep"
  /\ classify' = [classify EXCEPT ![t] = ClassifyOnWake(@)]
  /\ UNCHANGED <<env, main, creators, cache, fetchSem, ingest, fetchDone, results, summary,
                 classification_tasks, classifySem, classifyDone, classifications,
                 resultsFile, call, seen>>

\* ---------------------------------------------------------- main, step 4-5
\* The loop that builds classification_tasks reads every existing cache file
\* with json.load, which raises on a file that does not hold a whole document.
Unreadable(u) == cache[u].state = "partial"

\* A step 4 that builds a task for every cached record, cast texts or not.
ClassifiesCached(i) == Exists(creators[i])

\* A step 4 that builds a task for every record of the list.
ClassifiesEvery(i) == TRUE

\* if cast_file.exists(): ... if cast_data.get('cast_texts'):
Classifiable(i) ==
  /\ Exists(creators[i])
  /\ CastTexts(cache[creators[i]].kind) # <<>>

RECURSIVE BuildTasks(_)
BuildTasks(i) ==
  IF i = 0 THEN <<>>
  ELSE IF Classifiable(i)
  THEN Append(BuildTasks(i - 1),
              [cast_data |-> [kind |-> cache[creators[i]].kind,
                              user |-> User(creators[i])],
               creator |-> Creator(i), subject |-> i])
  ELSE BuildTasks(i - 1)

\* A tally that looks at the first result only.
SummaryOfHead(rs) ==
  [fetched |-> IF rs # <<>> /\ rs[1][1] /\ rs[1][2] = "fetched" THEN 1 ELSE 0,
   cached |-> IF rs # <<>> /\ rs[1][1] /\ rs[1][2] = "cached" THEN 1 ELSE 0,
   errors |-> IF rs # <<>> /\ ~rs[1][1] THEN 1 ELSE 0]

\* sum(1 for success, status in results if ...)
IsFetched(r) == r[1] /\ r[2] = "fetched"
IsCachedTag(r) == r[1] /\ r[2] = "cached"
IsErrorTag(r) == ~r[1]
Summary(rs) ==
  [fetched |-> Cardinality({i \in DOMAIN rs : IsFetched(rs[i])}),
   cached |-> Cardinality({i \in DOMAIN rs : IsCachedTag(rs[i])}),
   errors |-> Cardinality({i \in DOMAIN rs : IsErrorTag(rs[i])})]
NoSummary == [fetched |-> 0, cached |-> 0, errors |-> 0]

\* The ingestion loop is over: the summary is computed, the session is closed
\* and the classification tasks are built. results is not read after the
\* summary, so the model empties it there.
\* A main that moves on once one ingestion task has been collected.
SomeCollected == Len(results) >= 1

\* The as_completed loop ends when it has yielded every ingestion task.
AllCollected == Len(results) = Len(creators)

StartClassification ==
  /\ main = "ingest"
  /\ AllCollected
  /\ summary' = Summary(results)
  /\ results' = <<>>
  /\ IF \E i \in DOMAIN creators : Unreadable(creators[i])
     THEN /\ main' = "aborted"
          /\ UNCHANGED <<classification_tasks, classify>>
     ELSE /\ main' = "classify"
          /\ classification_tasks' = BuildTasks(Len(creators))
          /\ classify' = [t \in 1..Len(BuildTasks(Len(creators))) |-> ClassifyStart]
  /\ UNCHANGED <<env, creators, cache, fetchSem, ingest, fetchDone,
                 classifySem, classifyDone, classifications, resultsFile, call, seen>>

CancelClassify ==
  [t \in CTasks |-> IF classify[t].pc \in {"start", "gen", "sleep"}
                    THEN [classify[t] EXCEPT !.pc = "cancelled"]
                    ELSE classify[t]]

\* for coro in as_completed(tasks_with_creators): classifications.append(await coro)
CollectClassification ==
  /\ main = "classify"
  /\ classifyDone # <<>>
  /\ LET t == Head(classifyDone) IN
     IF classify[t].pc = "raised"
     THEN /\ main' = "aborted"
          /\ classify' = CancelClassify
          /\ classifySem' = classifySem + Cardinality({o \in CTasks : InClassifyGate(o)})
          /\ classifyDone' = <<>>
          /\ UNCHANGED classifications
     ELSE /\ classifications' = Append(classifications, classify[t].ret)
          /\ classifyDone' = Tail(classifyDone)
          /\ UNCHANGED <<main, classify, classifySem>>
  /\ UNCHANGED <<env, creators, cache, fetchSem, ingest, fetchDone, results, summary,
                 classification_tasks, resultsFile, call, seen>>

\* The classification breakdown main prints at the end: the records with a
\* truthy primary_classification, counted by its value.
Populated(c) ==
  /\ "primary_classification" \in DOMAIN c
  /\ c.primary_classification \notin {"", None}
Successful(cs) == {i \in DOMAIN cs : Populated(cs[i])}
Breakdown(cs) ==
  [cat \in {cs[i].primary_classification : i \in Successful(cs)} |->
     Cardinality({i \in Successful(cs) : cs[i].primary_classification = cat})]

\* The two counts of the final report:
\* len([c for c in classifications if not c.get("error")]) and
\* len([c for c in classifications if c.get("error")]).
HasError(c) == "error" \in DOMAIN c /\ c.error \notin {"", None}
TotalClassified(cs) == Cardinality({i \in DOMAIN cs : ~HasError(cs[i])})
Errors(cs) == Cardinality({i \in DOMAIN cs : HasError(cs[i])})

\* with open(output_file, 'w') as f: json.dump(classifications, f, indent=2)
\* open truncates the file; the dump then writes the document piece by piece.
\* A file cut short holds a strict prefix of the document's text, from which
\* no record list can be read.
Complete(content) == [state |-> "complete", content |-> content]
Truncated == [state |-> "partial", content |-> <<>>]

FileAfterWrite(old, content, w) ==
  IF w = "ok" THEN Complete(content)
  ELSE IF w = "open_failed" THEN old
  ELSE Truncated

\* A main that saves once one classification has been collected.
SomeClassified == Len(classifications) >= 1

\* The as_completed loop over tasks_with_creators ends when it has yielded
\* every classification task; step 5 comes after the loop.
AllClassified == Len(classifications) = Len(classification_tasks)

SaveResults ==
  /\ main = "classify"
  /\ AllClassified
  /\ \E w \in WriteOutcomes :
       /\ resultsFile' = FileAfterWrite(resultsFile, classifications, w)
       /\ main' = IF w = "ok" THEN "done"
                  ELSE IF w = "killed" THEN "killed" ELSE "save_failed"
  /\ UNCHANGED <<env, creators, cache, fetchSem, ingest, fetchDone, results, summary,
                 classification_tasks, classifySem, classify, classifyDone,
                 classifications, call, seen>>

\* ---------------------------------------------------------------- startup
\* What the process finds when it starts: whether each credential variable is
\* set to a non-empty value, and whether creator-fees-api-results.json is there
\* and loads as a list of creator records.
Envs == [neynar_key : BOOLEAN, gemini_key : BOOLEAN,
         dataset : {"ok", "missing", "malformed"}]
GoodEnv == [neynar_key |-> TRUE, gemini_key |-> TRUE, dataset |-> "ok"]

\* A start that takes the dataset for granted.
DatasetAssumed(e) == TRUE

\* if not NEYNAR_API_KEY: exit(1); if not GEMINI_API_KEY: exit(1)
CredentialsSet(e) == e.neynar_key /\ e.gemini_key

\* open(...) and json.load(f) return, and the filter loop runs over the
\* records; a missing file, an undecodable one or a record that is no object
\* raises out of main.
DatasetLoads(e) == e.dataset = "ok"

\* Module import and steps 1-2 of main, up to the creation of the ingestion
\* tasks: nothing is awaited on the way.
Startup ==
  /\ main = "startup"
  /\ main' = IF ~CredentialsSet(env) THEN "exited"
             ELSE IF ~DatasetLoads(env) THEN "startup_failed"
             ELSE "ingest"
  /\ UNCHANGED <<env, creators, cache, fetchSem, ingest, fetchDone, results, summary,
                 classification_tasks, classifySem, classify, classifyDone,
                 classifications, resultsFile, call, seen>>

\* ------------------------------------------------------------ environment
\* The ResultSet a previous run left in the results file.
PreviousResults ==
  <<Enrich(ErrorRecord([kind |-> "bio", user |-> User("zed")], "earlier run"),
           [totalEarningsUsd |-> 1000, coinAddress |-> 0, marketCap |-> 5000,
            handle |-> "zed"])>>

\* The replies the model service gives in a pipeline run.
PipelineReplies == {Text(<<"{", "G", "}">>), Text(<<"{", "C", "M", "}">>),
                    Text(<<"{", "}">>), Raise("503 unavailable"), Raise("")}

Init ==
  /\ env \in Envs
  /\ main = "startup"
  /\ creators = [i \in Tasks |-> Names[i]]
  /\ cache \in [Usernames -> {Absent, Snapshot("bio", 0)}]
  /\ fetchSem = GateWidth
  /\ ingest = [t \in Tasks |-> IngestStart]
  /\ fetchDone = <<>>
  /\ results = <<>>
  /\ summary = NoSummary
  /\ classification_tasks = <<>>
  /\ classifySem = GateWidth
  /\ classify = <<>>
  /\ classifyDone = <<>>
  /\ classifications = <<>>
  /\ resultsFile = Complete(PreviousResults)
  /\ call = FetchIdle
  /\ seen = <<>>

Next ==
  \/ Startup
  \/ \E t \in Tasks : IngestEnter(t)
  \/ \E t \in Tasks : IngestResponse(t)
  \/ \E t \in Tasks : IngestWake(t)
  \/ CollectFetch
  \/ StartClassification
  \/ \E t \in CTasks : ClassifyEnter(t)
  \/ \E t \in CTasks : ClassifyResponse(t, PipelineReplies)
  \/ \E t \in CTasks : ClassifyWake(t)
  \/ CollectClassification
  \/ SaveResults

Spec == Init /\ [][Next]_vars

\* --------------------------------------------- runs over any subject list
\* The filter keeps every record that carries a username, so one username may
\* stand in several records of the list. The list is no longer than the gates
\* are wide, as any list of up to CONCURRENT_REQUESTS records is: every task
\* is admitted as soon as it is scheduled.
SubjectLists == [Tasks -> Usernames]

InitLists ==
  /\ env = GoodEnv
  /\ main = "startup"
  /\ creators \in SubjectLists
  /\ cache \in [Usernames -> {Absent, Snapshot("bio", 0)}]
  /\ fetchSem = NumSubjects
  /\ ingest = [t \in Tasks |-> IngestStart]
  /\ fetchDone = <<>>
  /\ results = <<>>
  /\ summary = NoSummary
  /\ classification_tasks = <<>>
  /\ classifySem = NumSubjects
  /\ classify = <<>>
  /\ classifyDone = <<>>
  /\ classifications = <<>>
  /\ resultsFile = Complete(PreviousResults)
  /\ call = FetchIdle
  /\ seen = <<>>

SpecLists == InitLists /\ [][Next]_vars

\* -------------------------------------------- one classify_creator call alone
\* The call is made on a cached snapshot and meets every sequence of replies:
\* the service raises, or returns prose, a malformed object, or an object with
\* prose before and after it. Prose is words, and may hold braces of its own.
Proses == {<<>>, <<"w">>, <<"{", "w", "}">>}
Objects == {<<"{", "G", "}">>, <<"{", "}">>, <<"{", "C", "M", "}">>, <<"{", "G", "U", "}">>}
Embedded == {Text(pre \o obj \o post) : pre \in Proses, obj \in Objects, post \in Proses}
CallReplies == {Raise("503 unavailable"), Text(<<"w">>), Text(<<"{", "U", "w", "}">>)}
                 \cup Embedded

\* seen: the prompt each generate_content call was given and the reply it got.
CallReply ==
  /\ main = "classify"
  /\ classify[1].pc = "gen"
  /\ \E reply \in CallReplies :
       /\ ClassifyReplied(1, reply)
       /\ seen' = Append(seen, [prompt |-> classify[1].prompt, reply |-> reply])
  /\ UNCHANGED <<env, main, creators, cache, fetchSem, ingest, fetchDone, results,
                 summary, classification_tasks, classifications, resultsFile, call>>

InitClassify ==
  /\ env = GoodEnv
  /\ main = "classify"
  /\ creators = [i \in Tasks |-> Names[i]]
  /\ \E kind \in {"bio", "nobio"} :
       /\ cache = [u \in Usernames |->
                     IF u = Names[1] THEN Snapshot(kind, 0) ELSE Absent]
       /\ classification_tasks =
            <<[cast_data |-> [kind |-> kind, user |-> User(Names[1])],
               creator |-> Creator(1), subject |-> 1]>>
  /\ fetchSem = GateWidth
  /\ ingest = [t \in Tasks |-> IngestStart]
  /\ fetchDone = <<>>
  /\ results = <<>>
  /\ summary = NoSummary
  /\ classifySem = GateWidth
  /\ classify = <<ClassifyStart>>
  /\ classifyDone = <<>>
  /\ classifications = <<>>
  /\ resultsFile = Complete(PreviousResults)
  /\ call = FetchIdle
  /\ seen = <<>>

NextClassify == ClassifyEnter(1) \/ CallReply \/ ClassifyWake(1)

SpecClassify == InitClassify /\ [][NextClassify]_vars

\* The next step of one task, whatever it is.
IngestStep(t) == IngestEnter(t) \/ IngestResponse(t) \/ IngestWake(t)
ClassifyStep(t) ==
  ClassifyEnter(t) \/ ClassifyResponse(t, PipelineReplies) \/ ClassifyWake(t)

\* ------------------------------------------- one fetch_with_retry call alone
\* The call is made for either endpoint and meets every sequence of responses.
CallResponse ==
  /\ call.at = "request"
  /\ \E r \in ProfileResponses \cup CastsResponses :
       /\ call' = FetchOnResponse(call, r)
       /\ seen' = Append(seen, r)
  /\ UNCHANGED <<env, main, creators, cache, fetchSem, ingest, fetchDone, results,
                 summary, classification_tasks, classifySem, classify,
                 classifyDone, classifications, resultsFile>>

CallWake ==
  /\ call.at = "sleep"
  /\ call' = FetchOnWake(call)
  /\ UNCHANGED <<env, main, creators, cache, fetchSem, ingest, fetchDone, results,
                 summary, classification_tasks, classifySem, classify,
                 classifyDone, classifications, resultsFile, seen>>

InitFetch ==
  /\ env = GoodEnv
  /\ main = "fetch_with_retry"
  /\ creators = [i \in Tasks |-> Names[i]]
  /\ cache = [u \in Usernames |-> Absent]
  /\ fetchSem = GateWidth
  /\ ingest = [t \in Tasks |-> IngestStart]
  /\ fetchDone = <<>>
  /\ results = <<>>
  /\ summary = NoSummary
  /\ classification_tasks = <<>>
  /\ classifySem = GateWidth
  /\ classify = <<>>
  /\ classifyDone = <<>>
  /\ classifications = <<>>
  /\ resultsFile = Complete(PreviousResults)
  /\ call = FetchStart
  /\ seen = <<>>

NextFetch == CallResponse \/ CallWake

SpecFetch == InitFetch /\ [][NextFetch]_vars

\* ------------------------------------------------------------- properties
Gated == {t \in Tasks : InGate(t)}
ClassifyGated == {t \in CTasks : InClassifyGate(t)}

\* C1: in every reachable state at most GateWidth tasks are inside the gated
\* body of fetch_casts_for_user and at most GateWidth inside the gated body of
\* classify_creator, a task asleep between two attempts counting as inside.
GateBound ==
  /\ Cardinality(Gated) <= GateWidth
  /\ Cardinality(ClassifyGated) <= GateWidth

\* The classification gate is full, one of its tasks is asleep between two
\* attempts and another task waits for admission.
GateFullWhileWaiting ==
  /\ Cardinality(ClassifyGated) = GateWidth
  /\ \E t \in CTasks : classify[t].pc = "sleep"
  /\ \E t \in CTasks : classify[t].pc = "start"

\* C2: a failure of one subject's work never aborts the batch: when the run has
\* ended, every subject has reached its ingestion outcome and the results file
\* holds this run's ResultSet.
PerSubjectFailuresIsolated ==
  main = "aborted" =>
    /\ \A t \in Tasks : ingest[t].pc \in {"returned", "raised"}
    /\ resultsFile = Complete(classifications)

\* C3: every record of the ResultSet either has a populated
\* primary_classification with its supporting fields and no error field, or
\* has an error field and no primary_classification.
IsSuccessRecord(r) ==
  /\ {"primary_classification", "confidence", "reasoning"} \subseteq DOMAIN r
  /\ r.primary_classification # ""
  /\ "error" \notin DOMAIN r
IsErrorRecord(r) ==
  /\ "error" \in DOMAIN r
  /\ "primary_classification" \notin DOMAIN r
DisjointOutcomeClasses ==
  \A i \in DOMAIN classifications :
    IsSuccessRecord(classifications[i]) \/ IsErrorRecord(classifications[i])

\* C4: a task whose cache entry exists when it runs returns (True, 'cached') in
\* that step, having issued no network request, and the step leaves the cache
\* as it was, whatever the entry's age.
CachedShortCircuit ==
  [][\A t \in Tasks :
       (/\ ingest[t].pc = "start"
        /\ ingest'[t].pc \notin {"start", "cancelled"}
        /\ Exists(creators[t]))
       => /\ ingest'[t].pc = "returned"
          /\ ingest'[t].success
          /\ ingest'[t].status = "cached"
          /\ ~ingest'[t].requested
          /\ cache' = cache]_vars

\* A task has returned 'cached' on an entry older than this run while another
\* subject's content was fetched and written.
CachedOnOldEntry ==
  \E t \in Tasks, o \in Tasks :
    /\ ingest[t].pc = "returned" /\ ingest[t].status = "cached"
    /\ cache[creators[t]].fetched_at < Now
    /\ ingest[o].pc = "returned" /\ ingest[o].status = "fetched"

\* C5: classify_creator never raises to its caller: every task ends with one
\* record, a failure while extracting the bio included.
ClassifyAlwaysReturnsRecord ==
  \A t \in CTasks :
    /\ classify[t].pc # "raised"
    /\ classify[t].pc = "returned" => classify[t].ret # NoRecord

\* C6: a call whose first two requests answer 429 and whose third answers 200
\* returns the third response's payload, having slept exactly twice, for
\* RETRY_DELAY and then twice RETRY_DELAY.
TwoRateLimitsThenSuccess ==
  /\ Len(seen) = 3
  /\ seen[1].status = 429 /\ seen[2].status = 429 /\ seen[3].status = 200
RetryAfterRateLimit ==
  TwoRateLimitsThenSuccess =>
    /\ call.at = "returned"
    /\ call.ret = seen[3].body
    /\ call.delays = <<RETRY_DELAY, 2 * RETRY_DELAY>>
    /\ call.delays[1] < call.delays[2]

\* The call has seen 429, 429 and a 200 carrying a payload.
SucceededOnThirdRequest ==
  TwoRateLimitsThenSuccess /\ seen[3].body = "user"

\* C7 as stated: a request that ends in a status other than 200 and 429 is
\* retried, so a call that saw one returns only once all RETRY_ATTEMPTS
\* requests were made.
IsErrorStatus(r) == r.status \in ErrorStatuses
ErrorStatusIsRetried ==
  (call.at = "returned" /\ \E i \in DOMAIN seen : IsErrorStatus(seen[i]))
    => Len(seen) = RETRY_ATTEMPTS

\* C7 as amended: a request that ends in a status other than 200 and 429 ends
\* the call: it is the last request, None is returned at once and no sleep
\* follows it.
ErrorStatusIsTerminal ==
  \A i \in DOMAIN seen :
    IsErrorStatus(seen[i]) =>
      /\ i = Len(seen)
      /\ call.at = "returned"
      /\ call.ret = None
      /\ Len(call.delays) = i - 1

\* A call whose second request ended in an error status, with attempts left.
ErrorStatusOnSecondRequest ==
  /\ Len(seen) = 2
  /\ seen[1].status = 429
  /\ IsErrorStatus(seen[2])
  /\ call.at = "returned"

\* C8: the order of the records written does not depend on the order in which
\* the classification tasks complete. Every completion order is possible for
\* the same replies, the order of classification_tasks among them, so a stable
\* order means the file lists the records in the order of classification_tasks.
InTaskOrder == [t \in CTasks |-> classify[t].ret]
ResultOrderStable ==
  main = "done" => resultsFile.content = InTaskOrder

\* C9: the results file always holds a whole ResultSet, the previous one or
\* this run's, also when the write fails or the process stops during it.
ResultsFileAtomic ==
  /\ resultsFile.state = "complete"
  /\ resultsFile.content \in {PreviousResults, classifications}

\* C10: a cache entry that exists holds a whole ContentSnapshot, also when the
\* write fails or the process stops during it.
CacheEntryWhole ==
  \A u \in Usernames : Exists(u) => cache[u].state = "complete"

\* C11: no two records of the ResultSet a run writes carry the same identifier,
\* also when an identifier stands in more than one record of the subject list.
UniqueIdentifiers ==
  main = "done" =>
    \A i \in DOMAIN resultsFile.content, j \in DOMAIN resultsFile.content :
      i # j => resultsFile.content[i].username # resultsFile.content[j].username

\* C12: every record carries the financial fields of the creator record its
\* classification task was built with, whatever the completion order and
\* whatever keys the model's object holds; a success record carries the decoded
\* object's own fields, primary_classification among them.
CreatorKeys == {"earnings_usd", "coin_address", "market_cap", "zora_handle"}
Succeeded(c) ==
  c.pc = "returned" /\ c.response # None /\ Attempt(Text(c.response)).ok
MergedFromSeed(t) ==
  LET r == classify[t].ret
      creator == classification_tasks[t].creator
      value == Attempt(Text(classify[t].response)).value
  IN
  /\ r.earnings_usd = creator.totalEarningsUsd
  /\ r.coin_address = creator.coinAddress
  /\ r.market_cap = creator.marketCap
  /\ r.zora_handle = creator.handle
  /\ Succeeded(classify[t]) =>
       \A k \in DOMAIN value \ (CreatorKeys \cup {"analyzed_at"}) : r[k] = value[k]
EnrichedFromSeed ==
  /\ \A t \in CTasks : classify[t].pc = "returned" => MergedFromSeed(t)
  /\ \A i \in DOMAIN classifications :
       \E t \in CTasks : classify[t].pc = "returned" /\ classifications[i] = classify[t].ret
  /\ main = "done" => resultsFile.content = classifications

\* The second task completed first, and the first task's reply was an object
\* holding financial keys of its own.
SeedKeptAgainstModelKeys ==
  /\ main = "done"
  /\ Len(classifications) = 2
  /\ classifications[1] = classify[2].ret
  /\ classifications[2] = classify[1].ret
  /\ classify[1].response = <<"{", "C", "M", "}">>
  /\ classify[1].ret.primary_classification = "Creative"

\* A task that asked for the profile, got nothing and returned.
ProfileLookupFailed(t) ==
  /\ ingest[t].pc = "returned"
  /\ ingest[t].requested
  /\ ~ingest[t].casts_requested
NoTraceOf(t) ==
  /\ ~Exists(creators[t])
  /\ \A c \in CTasks : classification_tasks[c].subject # t
  /\ \A i \in DOMAIN classifications : classifications[i].zora_handle # Names[t]
  /\ main = "done" =>
       \A i \in DOMAIN resultsFile.content : resultsFile.content[i].zora_handle # Names[t]

\* C13 as stated: a subject without a cache entry whose profile lookup returns
\* nothing ends ingestion with the tag user_not_found, having issued no content
\* request and written no cache entry, and has no classification task and no
\* record in the ResultSet.
UserNotFoundTag ==
  \A t \in Tasks :
    ProfileLookupFailed(t) =>
      /\ ingest[t].status = "user_not_found"
      /\ NoTraceOf(t)

\* C13 as amended: such a subject ends ingestion with (False,
\* 'user_fetch_failed'), having issued no content request and written no cache
\* entry, and has no classification task and no record in the ResultSet.
UserFetchFailedStopsSubject ==
  \A t \in Tasks :
    /\ ProfileLookupFailed(t) =>
         /\ ~ingest[t].success
         /\ ingest[t].status = "user_fetch_failed"
         /\ NoTraceOf(t)
    /\ (ingest[t].pc = "returned" /\ ingest[t].status = "user_fetch_failed")
         => ProfileLookupFailed(t)

\* The run is complete, one subject's profile lookup returned nothing and the
\* other subject's record was written.
RunDoneWithoutLostSubject ==
  /\ main = "done"
  /\ ProfileLookupFailed(1)
  /\ Len(resultsFile.content) = 1
  /\ resultsFile.content[1].zora_handle = Names[2]

\* C14: the tallies do not depend on the order of the subject list: the
\* ingestion summary equals the tally of the per-subject outcomes taken in any
\* order, and the category breakdown equals the breakdown of the tasks' records
\* taken in any order.
IngestionOver ==
  /\ main \in {"classify", "done", "save_failed", "killed", "aborted"}
  /\ \A t \in Tasks : ingest[t].pc = "returned"
OutcomesIn(p) == [i \in Tasks |-> <<ingest[p[i]].success, ingest[p[i]].status>>]
RecordsIn(p) == [i \in CTasks |-> classify[p[i]].ret]
TalliesOrderIndependent ==
  /\ IngestionOver => \A p \in Permutations(Tasks) : Summary(OutcomesIn(p)) = summary
  /\ main = "done" =>
       \A p \in Permutations(CTasks) : Breakdown(RecordsIn(p)) = Breakdown(classifications)

\* Results of different tags and records of different categories, collected
\* against the order of the list.
TalliedAgainstListOrder ==
  /\ main = "done"
  /\ summary = [fetched |-> 1, cached |-> 1, errors |-> 0]
  /\ ingest[1].status = "fetched"
  /\ Len(classifications) = 2
  /\ classifications[1] = classify[2].ret
  /\ Breakdown(classifications) = ("Builder" :> 1) @@ ("Creative" :> 1)

\* C15: when a credential variable is not set, or the financial dataset is
\* missing or malformed, the run ends at startup: no ingestion task has taken a
\* step or issued a request, no classification task exists, and the cache
\* entries and the results file are those the run found.
BadEnv == ~(env.neynar_key /\ env.gemini_key) \/ env.dataset # "ok"
AbortsBeforeWork ==
  BadEnv =>
    /\ main \in {"startup", "exited", "startup_failed"}
    /\ \A t \in Tasks : ingest[t] = IngestStart
    /\ fetchDone = <<>> /\ results = <<>>
    /\ classification_tasks = <<>> /\ classify = <<>> /\ classifications = <<>>
    /\ \A u \in Usernames : cache[u] \in {Absent, Snapshot("bio", 0)}
    /\ resultsFile = Complete(PreviousResults)

\* Both credentials are set, the dataset does not load and the run has ended.
AbortedOnMalformedDataset ==
  /\ env.neynar_key /\ env.gemini_key
  /\ env.dataset = "malformed"
  /\ main = "startup_failed"

\* C17: no classification invocation begins before every ingestion task has
\* finished: no slot of the ingestion gate is held while a slot of the
\* classification gate is held.
StagesDisjoint ==
  /\ (classification_tasks # <<>> \/ \E t \in CTasks : classify[t].pc # "start")
       => \A t \in Tasks : ingest[t].pc = "returned"
  /\ Gated = {} \/ ClassifyGated = {}
  /\ fetchSem = GateWidth \/ classifySem = GateWidth

\* A classification task holds a slot in a run whose ingestion gate was used
\* to fetch content.
ClassifyingAfterFetching ==
  /\ \E t \in CTasks : InClassifyGate(t) /\ classifySem < GateWidth
  /\ \E o \in Tasks : ingest[o].status = "fetched"

\* C16: when the first reply is prose, then one JSON object, then prose, the
\* call returns at once the success record built from that object, whatever
\* the prose before and after it.
ProseAroundObjectDecodes ==
  \A pre \in Proses, obj \in Objects, post \in Proses :
    (seen # <<>> /\ seen[1].reply = Text(pre \o obj \o post)) =>
      /\ Len(seen) = 1
      /\ classify[1].pc = "returned"
      /\ classify[1].ret =
           Enrich(SuccessRecord(classification_tasks[1].cast_data, Decode(obj)),
                  classification_tasks[1].creator)

\* C19: the call gives the service at most RETRY_ATTEMPTS invocations, all
\* with the same prompt; every failed attempt but the last is followed by a
\* delay of RETRY_DELAY * 2^attempt and a new attempt; the first reply that
\* decodes ends the call with a success record, and an error record is
\* returned only when the last attempt has failed, with no delay after it.
Failed(i) == ~Attempt(seen[i].reply).ok
ClassifyRetryDiscipline ==
  LET c == classify[1]
      cast_data == classification_tasks[1].cast_data
      creator == classification_tasks[1].creator
      n == Len(seen)
  IN
  /\ n <= RETRY_ATTEMPTS
  /\ \A i \in DOMAIN seen : seen[i].prompt = Prompt(cast_data)
  /\ \A i \in DOMAIN c.delays : c.delays[i] = RETRY_DELAY * Pow2(i - 1)
  /\ \A i \in 1..(n - 1) : Failed(i)
  /\ c.pc = "start" => n = 0
  /\ c.pc = "gen" => n = c.attempt /\ Len(c.delays) = n
  /\ c.pc = "sleep" => Failed(n) /\ n < RETRY_ATTEMPTS /\ Len(c.delays) = n
  /\ c.pc = "returned" =>
       /\ n >= 1 /\ Len(c.delays) = n - 1
       /\ IF Failed(n)
          THEN /\ n = RETRY_ATTEMPTS
               /\ c.ret = Enrich(ErrorRecord(cast_data, Attempt(seen[n].reply).error),
                                 creator)
          ELSE c.ret = Enrich(SuccessRecord(cast_data, Attempt(seen[n].reply).value),
                              creator)

\* The three kinds of failure in a row: the service raised, the reply held no
\* object, the object did not decode; the error record followed two delays.
ThreeKindsOfFailure ==
  /\ Len(seen) = RETRY_ATTEMPTS
  /\ seen[1].reply = Raise("503 unavailable")
  /\ seen[2].reply = Text(<<"w">>)
  /\ seen[3].reply = Text(<<"{", "U", "w", "}">>)
  /\ classify[1].pc = "returned"
  /\ classify[1].delays = <<2, 4>>
  /\ classify[1].ret.error = "Expecting property name"

\* C18: a cache entry is created at most once and never changes afterwards: no
\* step changes an entry that exists, and no task sends a request for an
\* identifier whose entry exists, also when the identifier stands in several
\* records of the list.
SendsRequest(t) ==
  /\ ingest'[t].fetch.at = "request"
  /\ ingest'[t] # ingest[t]
CacheEntryWrittenOnce ==
  [][/\ \A u \in Usernames : Exists(u) => cache'[u] = cache[u]
     /\ \A t \in Tasks : SendsRequest(t) => ~Exists(creators[t])]_vars

\* C20: one call sends at most RETRY_ATTEMPTS requests; rate limits and
\* exceptions use up the same attempts; the k-th delay taken (k = 0, 1, 2) is
\* RETRY_DELAY * 2^k; a call that met only rate limits and exceptions returns
\* None, after RETRY_ATTEMPTS requests.
OnlyRetryable == \A i \in DOMAIN seen : seen[i].status \in {429, 0}
SharedAttemptBudget ==
  /\ Len(seen) <= RETRY_ATTEMPTS
  /\ call.at = "request" => call.attempt = Len(seen)
  /\ call.at = "sleep" => call.attempt = Len(seen) - 1
  /\ Len(call.delays) <= Len(seen)
  /\ \A k \in DOMAIN call.delays : call.delays[k] = RETRY_DELAY * Pow2(k - 1)
  /\ (call.at = "returned" /\ OnlyRetryable) =>
       /\ call.ret = None
       /\ Len(seen) = RETRY_ATTEMPTS
       /\ Len(call.delays) = IF seen[RETRY_ATTEMPTS].status = 429
                             THEN RETRY_ATTEMPTS ELSE RETRY_ATTEMPTS - 1

\* A rate limit, an exception and a rate limit: the budget is spent after
\* delays of 2, 4 and 8.
BudgetSpentOnMixedFailures ==
  /\ Len(seen) = 3
  /\ seen[1].status = 429 /\ seen[2].status = 0 /\ seen[3].status = 429
  /\ call.at = "returned"
  /\ call.delays = <<2, 4, 8>>

\* C21: a slot is given back when its task ends, by a return or by an
\* exception: in every reachable state the free slots and the tasks inside the
\* gated body add up to the gate's width, in both stages, so a gate with no
\* task inside has all its slots free.
SlotsConserved ==
  /\ fetchSem + Cardinality(Gated) = GateWidth
  /\ classifySem + Cardinality(ClassifyGated) = GateWidth
  /\ Gated = {} => fetchSem = GateWidth
  /\ ClassifyGated = {} => classifySem = GateWidth

\* One task ended by an exception, another with a failure tag, and the
\* ingestion gate is free again.
SlotsFreeAfterFailures ==
  /\ \E t \in Tasks : ingest[t].pc = "raised"
  /\ \E t \in Tasks : ingest[t].pc = "returned" /\ ~ingest[t].success
  /\ Gated = {}
  /\ fetchSem = GateWidth

\* C22 as stated: while tasks sleep between two attempts, every other
\* unfinished task can take its next step, a task waiting for admission
\* included.
Sleeping == {t \in Tasks : ingest[t].fetch.at = "sleep"}
ClassifySleeping == {t \in CTasks : classify[t].pc = "sleep"}
Unfinished(t) == ingest[t].pc \in {"start", "user", "casts"}
ClassifyUnfinished(t) == classify[t].pc \in {"start", "gen", "sleep"}
WroteEntry(t) == cache[creators[t]] \notin {Absent, Snapshot("bio", 0)}
ReturnedFetched(t) == ingest[t].pc = "returned" /\ ingest[t].status = "fetched"
CacheWrittenIffFetched ==
  \A t \in Tasks :
    /\ ingest[t].casts_requested => ingest[t].requested
    /\ WroteEntry(t) <=> ReturnedFetched(t)
    /\ (ingest[t].pc = "returned" /\ ~ingest[t].success) => ~WroteEntry(t)

\* The records of the written ResultSet that carry subject t's handle.
RecordsOf(t) ==
  {i \in DOMAIN resultsFile.content : resultsFile.content[i].zora_handle = Names[t]}

ClassificationOver == \A t \in CTasks : classify[t].pc = "returned"
ClassificationFrame ==
  [][main = "classify" =>
       /\ cache' = cache
       /\ resultsFile = Complete(PreviousResults)
       /\ (resultsFile' # resultsFile => ClassificationOver)
       /\ (main' = "aborted" => resultsFile' = Complete(PreviousResults))]_vars

\* A run stopped in the middle of classification: one record was already
\* collected in memory, a later task raised, the cached snapshots and the
\* previous results file are as they were.
StoppedMidClassification ==
  /\ main = "aborted"
  /\ Len(classification_tasks) = NumSubjects
  /\ Len(classifications) >= 1
  /\ \E t \in CTasks : classify[t].pc = "raised"
  /\ \A u \in Usernames : cache[u].state = "complete"
  /\ resultsFile = Complete(PreviousResults)

\* ------------------------------------------------------- the pipeline, fair
\* The event loop runs every task that is ready, every request and every
\* model invocation is answered, every sleep ends, and main goes on whenever
\* it can.
Fairness ==
  /\ WF_vars(Startup)
  /\ \A t \in Tasks : WF_vars(IngestStep(t))
  /\ WF_vars(CollectFetch)
  /\ WF_vars(StartClassification)
  /\ \A t \in Tasks : WF_vars(t \in CTasks /\ ClassifyStep(t))
  /\ WF_vars(CollectClassification)
  /\ WF_vars(SaveResults)
SpecFair == Init /\ [][Next]_vars /\ Fairness

\* C26: under fair scheduling and answered requests, every run that starts
\* its ingestion loop ends every ingestion task with an outcome tag, every
\* classification task with a record, and comes to the write of the results
\* file with one entry per classification task.
RunEnded ==
  /\ main \in {"done", "killed", "save_failed"}
  /\ \A t \in Tasks : ingest[t].pc = "returned"
  /\ \A t \in CTasks : classify[t].pc = "returned"
  /\ Len(classifications) = Len(classification_tasks)
EveryRunTerminates == (main = "ingest") ~> RunEnded

\* C27: in every success record classify_creator returns, username,
\* display_name, bio, follower_count and casts_analyzed are the values derived
\* from the cached snapshot, whatever object the model returned.
PipelineFieldsKept ==
  Succeeded(classify[1]) =>
    LET r == classify[1].ret
        cast_data == classification_tasks[1].cast_data
    IN
    /\ r.username = cast_data.user.username
    /\ r.display_name = cast_data.user.display_name
    /\ r.bio = Bio(cast_data.kind)
    /\ r.follower_count = cast_data.user.follower_count
    /\ r.casts_analyzed = Len(CastTexts(cast_data.kind))

\* C28: in the report of a finished run, 'Total classified' is the number of
\* records with a populated primary_classification, 'Errors' is the number of
\* Error records, and the two sum to the number of records.
ReportCountsMatchClasses ==
  main = "done" =>
    /\ TotalClassified(classifications) = Cardinality(Successful(classifications))
    /\ Errors(classifications) =
         Cardinality({i \in DOMAIN classifications : IsErrorRecord(classifications[i])})
    /\ TotalClassified(classifications) + Errors(classifications) = Len(classifications)

\* C29: for the same snapshot, subject record and sequence of model replies
\* and failures, reclassify-creators' classify_creator returns the record
\* that batch-classify-creators' classify_creator followed by
\* process_classification returns, key for key and value for value apart
\* from analyzed_at, and it returns after the same number of replies.
WithoutTimestamp(r) == [k \in DOMAIN r \ {"analyzed_at"} |-> r[k]]
RepliesSeen == [i \in DOMAIN seen |-> seen[i].reply]
PipelinesBuildSameRecord ==
  LET batch == IF classify[1].pc = "returned" THEN classify[1].ret ELSE Pending
      reclassify == ReclassifyCreator(classification_tasks[1].cast_data,
                                      classification_tasks[1].creator, RepliesSeen, 1)
  IN
  /\ DOMAIN batch = DOMAIN reclassify
  /\ WithoutTimestamp(batch) = WithoutTimestamp(reclassify)

\* The call met a failure and then an object that carries financial keys of
\* its own; the record returned keeps the subject's.
SameRecordAfterRetry ==
  /\ classify[1].pc = "returned"
  /\ Len(seen) = 2
  /\ Failed(1)
  /\ seen[2].reply = Text(<<"{", "C", "M", "}">>)
  /\ classify[1].ret.primary_classification = "Creative"
  /\ classify[1].ret.zora_handle = classification_tasks[1].creator.handle

====
